---- MODULE Spec2Model ----
(***************************************************************************)
(* Model of the request handlers of src/server.js and of the three         *)
(* mongoose schemas of src/models/City.js (City, User, Chat).              *)
(*                                                                         *)
(* Text is a sequence of one-character strings, so that trimming and the   *)
(* emptiness tests of the code are computed and not assumed.               *)
(***************************************************************************)
EXTENDS Naturals, Sequences, FiniteSets

VARIABLES
    users,      \* the User collection (external document store)
    cities,     \* the City collection, in insertion order
    chats,      \* the Chat collection, in insertion order
    session,    \* per client: the user id its session is logged in as, or NoUser
    pending,    \* per request slot: a POST /cities handler suspended at `await newCity.save()`
    registered, \* history: the credentials POST /register has answered 201 for
    saveLog,    \* history: per (user, city), the first two statuses POST /cities answered
    last        \* the request most recently answered, with its response

vars == <<users, cities, chats, session, pending, registered, saveLog, last>>

\* ------------------------------------------------------------------ bounds
MaxCities == 2      \* cap on the number of City documents
MaxChats == 2       \* cap on the number of Chat documents
MaxLen == 2         \* longest upstream reply text

\* ------------------------------------------------------------------ text
Chars == {" ", "a"}

RECURSIVE TextsUpTo(_)
TextsUpTo(n) ==
    IF n = 0 THEN {<<>>}
    ELSE LET shorter == TextsUpTo(n - 1)
         IN  shorter \cup {Append(t, c) : t \in {s \in shorter : Len(s) = n - 1}, c \in Chars}

\* String.prototype.trim: drop the leading and the trailing white space.
RECURSIVE TrimStart(_)
TrimStart(t) == IF t # <<>> /\ Head(t) = " " THEN TrimStart(Tail(t)) ELSE t

RECURSIVE TrimEnd(_)
TrimEnd(t) ==
    IF t # <<>> /\ t[Len(t)] = " " THEN TrimEnd(SubSeq(t, 1, Len(t) - 1)) ELSE t

Trim(t) == TrimEnd(TrimStart(t))

\* ------------------------------------------------------------- JSON fields
\* A field of a request body: absent (undefined) or present with a value.
Field(v) == [present |-> TRUE, value |-> v]
AbsentField(empty) == [present |-> FALSE, value |-> empty]

FalsyOnlyAbsent(f, empty) == ~f.present

\* JavaScript's `!x` for a string field: undefined and "" are falsy.
Falsy(f, empty) == ~f.present \/ f.value = empty

\* ------------------------------------------------------------------ bcrypt
\* bcrypt.hash(password, salt): a salted digest behind a format prefix.  The
\* digest is injective in the password for a given salt.
BcryptHash(pw, salt) ==
    <<0, salt>> \o [i \in 1..Len(pw) |-> (pw[i] * 3 + salt + i) % 7]

\* bcrypt.compare(candidate, hash): rehash the candidate with the hash's salt.
BcryptCompare(candidate, hash) == BcryptHash(candidate, hash[2]) = hash

\* UserSchema.pre('save'): the password field is replaced by its hash.
PreSave(doc, salt) == [doc EXCEPT !.password = BcryptHash(doc.password, salt)]

\* UserSchema.methods.comparePassword, awaited.
ComparePassword(user, candidate) == BcryptCompare(candidate, user.password)

\* ------------------------------------------------------------------ values
NoUser == "none"
Clients == {"k1", "k2"}
Slots == {"r1", "r2"}
UserNames == {"alice", "bob"}
Passwords == {<<1>>, <<2, 1>>}
CityNames == {"Paris", "Oslo"}
Idle == [busy |-> FALSE, client |-> "", userId |-> NoUser, name |-> ""]

\* User documents that may already be in the store when the server starts:
\* each was written through the User model, so its password is hashed.
SeededUsers ==
    { PreSave([id |-> "u1", username |-> "alice", password |-> <<1>>], 1),
      PreSave([id |-> "u2", username |-> "bob", password |-> <<2, 1>>], 2) }

UserIds == {u.id : u \in SeededUsers}

NoRequest == [op |-> "none", client |-> "", status |-> 0]

Init ==
    /\ users \in SUBSET SeededUsers
    /\ cities = <<>>
    /\ chats = <<>>
    /\ session = [k \in Clients |-> NoUser]
    /\ pending = [r \in Slots |-> Idle]
    /\ registered = {}
    /\ saveLog = [p \in UserIds \X CityNames |-> <<>>]
    /\ last = NoRequest

\* ------------------------------------------------------------------- login
\* User.findOne({ username }): the matching documents (username is unique).
FindUsers(username) == {u \in users : u.username = username}

\* The local strategy's verify callback (./config/passport.js): the id of the
\* user the credentials belong to, or NoUser.
LocalVerify(username, password) ==
    LET found == FindUsers(username)
    IN  IF found = {} THEN NoUser
        ELSE LET user == CHOOSE u \in found : TRUE
             IN  IF ComparePassword(user, password) THEN user.id ELSE NoUser

\* deserializeUser (./config/passport.js): req.user for a session, by id.
DeserializeUser(id) ==
    IF id # NoUser /\ \E u \in users : u.id = id THEN id ELSE NoUser

\* req.isAuthenticated() && req.user, as the /cities handlers test it.
ReqUser(k) == DeserializeUser(session[k])

\* app.post('/login', passport.authenticate('local'), ...): on failure the
\* middleware answers 401 itself; on success it logs the user in (logIn names
\* the user the session is established for) and the handler answers 200.
PassportNoLogIn(username, password) ==
    LET id == LocalVerify(username, password)
    IN  IF id = NoUser
        THEN [status |-> 401, logIn |-> NoUser, route |-> "passport"]
        ELSE [status |-> 200, logIn |-> NoUser, route |-> "passport"]

PassportLogin(username, password) ==
    LET id == LocalVerify(username, password)
    IN  IF id = NoUser
        THEN [status |-> 401, logIn |-> NoUser, route |-> "passport"]
        ELSE [status |-> 200, logIn |-> id, route |-> "passport"]

\* `!user.comparePassword(password)` without await: the operand is the Promise
\* itself, which is truthy whatever it resolves to.
UnawaitedComparePassword(user, candidate) == TRUE

\* The second app.post("/login", ...) handler: no session is touched.
LoginHandler(username, password) ==
    LET found == FindUsers(username)
    IN  IF found = {} \/ ~UnawaitedComparePassword(CHOOSE u \in found : TRUE, password)
        THEN [status |-> 401, logIn |-> NoUser, route |-> "handler"]
        ELSE [status |-> 200, logIn |-> NoUser, route |-> "handler"]

\* Express runs the routes of a path in registration order, and a route that
\* answers without calling next() ends the request: POST /login is answered by
\* the route registered first, and the second handler is never reached.
LoginSecondRoute(username, password) == LoginHandler(username, password)

LoginRoutes(username, password) == PassportLogin(username, password)

Login(k, username, password) ==
    LET res == LoginRoutes(username, password)
    IN  /\ session' = IF res.logIn # NoUser
                      THEN [session EXCEPT ![k] = res.logIn]
                      ELSE session
        /\ last' = [op |-> "login", client |-> k, status |-> res.status,
                    username |-> username, password |-> password,
                    route |-> res.route]
        /\ UNCHANGED <<users, cities, chats, pending, registered, saveLog>>

\* ---------------------------------------------------------------- register
\* app.post('/register'): validates the two fields and answers; no User
\* document is created.
RegisterStatus(username, password) ==
    IF Falsy(username, "") \/ Falsy(password, <<>>) THEN 400 ELSE 201

Register(k, username, password) ==
    LET status == RegisterStatus(username, password)
    IN  /\ registered' = IF status = 201
                         THEN registered \cup {<<username.value, password.value>>}
                         ELSE registered
        /\ last' = [op |-> "register", client |-> k, status |-> status,
                    username |-> username, password |-> password]
        /\ UNCHANGED <<users, cities, chats, session, pending, saveLog>>

\* ------------------------------------------------------------------ cities
\* City.findOne({ name, userId }): is there a matching document?
CityFindOneByName(name, userId) ==
    \E i \in 1..Len(cities) : cities[i].name = name

CityFindOne(name, userId) ==
    \E i \in 1..Len(cities) : cities[i].name = name /\ cities[i].userId = userId

\* City.find({ userId }): the matching documents, in insertion order.
CityFindAll(userId) == cities

CityFind(userId) ==
    LET Owned(c) == c.userId = userId IN SelectSeq(cities, Owned)

\* The number of City documents with a given (name, userId).
Count(name, userId) ==
    Cardinality({i \in 1..Len(cities) :
                    cities[i].name = name /\ cities[i].userId = userId})

Logged(userId, name, status) ==
    IF Len(saveLog[<<userId, name>>]) < 2
    THEN [saveLog EXCEPT ![<<userId, name>>] = Append(@, status)]
    ELSE saveLog

\* app.post('/cities') up to `await City.findOne(...)`: the answer it gives,
\* or status 0 when it goes on to save.
SaveCityChecksCityFirst(k, city) ==
    IF Falsy(city, "")
    THEN [status |-> 400, error |-> "City name required"]
    ELSE IF ReqUser(k) = NoUser
    THEN [status |-> 401, error |-> "You must be logged in"]
    ELSE IF CityFindOne(city.value, ReqUser(k))
    THEN [status |-> 400, error |-> "City already saved"]
    ELSE [status |-> 0, error |-> ""]

SaveCityChecks(k, city) ==
    IF ReqUser(k) = NoUser
    THEN [status |-> 401, error |-> "You must be logged in"]
    ELSE IF Falsy(city, "")
    THEN [status |-> 400, error |-> "City name required"]
    ELSE IF CityFindOne(city.value, ReqUser(k))
    THEN [status |-> 400, error |-> "City already saved"]
    ELSE [status |-> 0, error |-> ""]

\* The handler runs to its answer, or suspends in slot r at `await newCity.save()`.
SaveCityFind(r, k, city) ==
    LET res == SaveCityChecks(k, city)
    IN  /\ ~pending[r].busy
        /\ IF res.status # 0
           THEN /\ last' = [op |-> "saveCity", client |-> k, status |-> res.status,
                            error |-> res.error, city |-> city, userId |-> ReqUser(k)]
                /\ saveLog' = IF res.error = "City already saved"
                              THEN Logged(ReqUser(k), city.value, res.status)
                              ELSE saveLog
                /\ UNCHANGED pending
           ELSE /\ Len(cities) + Cardinality({q \in Slots : pending[q].busy}) < MaxCities
                /\ pending' = [pending EXCEPT ![r] =
                                  [busy |-> TRUE, client |-> k,
                                   userId |-> ReqUser(k), name |-> city.value]]
                /\ UNCHANGED <<last, saveLog>>
        /\ UNCHANGED <<users, cities, chats, session, registered>>

\* `await newCity.save()` and the 201 answer.
SaveCitySave(r) ==
    /\ pending[r].busy
    /\ cities' = Append(cities, [name |-> pending[r].name, userId |-> pending[r].userId])
    /\ last' = [op |-> "saveCity", client |-> pending[r].client, status |-> 201,
                error |-> "", city |-> Field(pending[r].name),
                userId |-> pending[r].userId]
    /\ saveLog' = Logged(pending[r].userId, pending[r].name, 201)
    /\ pending' = [pending EXCEPT ![r] = Idle]
    /\ UNCHANGED <<users, chats, session, registered>>

\* app.get('/cities').
ListCities(k) ==
    /\ last' = IF ReqUser(k) = NoUser
               THEN [op |-> "listCities", client |-> k, status |-> 401,
                     userId |-> NoUser, body |-> <<>>]
               ELSE [op |-> "listCities", client |-> k, status |-> 200,
                     userId |-> ReqUser(k), body |-> CityFind(ReqUser(k))]
    /\ UNCHANGED <<users, cities, chats, session, pending, registered, saveLog>>

\* -------------------------------------------------------------------- chat
\* What `await openai.chat.completions.create(...)` can produce: a rejection,
\* or a value that is null, has no `choices`, has an empty `choices`, has a
\* first choice whose message content is null, or has a text content.
Upstream ==
    {[kind |-> k, content |-> <<>>] :
        k \in {"rejected", "null", "noChoices", "emptyChoices", "nullContent"}}
    \cup {[kind |-> "text", content |-> t] : t \in TextsUpTo(MaxLen)}

NotCalled == [kind |-> "notCalled", content |-> <<>>]

\* A well-formed completion: choices[0].message.content is a string.
WellFormed(up) == up.kind = "text"

\* A response text is one of the handler's literals or an upstream reply.
Literal(s) == [literal |-> s, text |-> <<>>]
Reply(t) == [literal |-> "", text |-> t]

\* `required: true` on a mongoose String path: the empty string is rejected.
RequiredString(v) == Len(v) > 0

\* ChatSchema validation, run by chat.save().
ChatValid(doc) == RequiredString(doc.userMessage) /\ RequiredString(doc.botMessage)

Apology == Literal("I'm having trouble thinking right now. Try again later.")

\* The catch block of app.post("/chat").
ChatCatchStatus500 == [status |-> 500, save |-> FALSE, response |-> Apology]

ChatCatch == [status |-> 200, save |-> FALSE, response |-> Apology]

\* The try block of app.post("/chat") for a truthy message, given what the
\* upstream call produced.
ChatTry(userMessage, up) ==
    IF up.kind = "rejected" THEN ChatCatch
    ELSE IF up.kind = "null" \/ up.kind = "noChoices" THEN ChatCatch
    ELSE IF up.kind = "emptyChoices" \/ up.kind = "nullContent" THEN ChatCatch
    ELSE LET botMessage == Trim(up.content)
             doc == [userMessage |-> userMessage, botMessage |-> botMessage]
         IN  IF ~ChatValid(doc) THEN ChatCatch
             ELSE [status |-> 200, save |-> TRUE, response |-> Reply(botMessage)]

\* app.post("/chat").
Chat(message, up) ==
    IF Falsy(message, <<>>)
    THEN /\ last' = [op |-> "chat", client |-> "", status |-> 200, message |-> message,
                     upstream |-> NotCalled,
                     response |-> Literal("Please type something.")]
         /\ UNCHANGED <<users, cities, chats, session, pending, registered, saveLog>>
    ELSE LET res == ChatTry(message.value, up)
         IN  /\ res.save => Len(chats) < MaxChats
             /\ chats' = IF res.save
                         THEN Append(chats, [userMessage |-> message.value,
                                             botMessage |-> res.response.text])
                         ELSE chats
             /\ last' = [op |-> "chat", client |-> "", status |-> res.status,
                         message |-> message, upstream |-> up,
                         response |-> res.response]
             /\ UNCHANGED <<users, cities, session, pending, registered, saveLog>>

\* ------------------------------------------------------------------ inputs
UserNameFields == {AbsentField(""), Field("")} \cup {Field(n) : n \in UserNames}
PasswordFields == {AbsentField(<<>>), Field(<<>>)} \cup {Field(p) : p \in Passwords}
CityFields == {AbsentField(""), Field("")} \cup {Field(c) : c \in CityNames}
MessageFields == {AbsentField(<<>>)} \cup {Field(t) : t \in TextsUpTo(1)}

\* ----------------------------------------------------------- specifications
\* Next is the whole server.  Registration and login, the /cities routes and
\* the chat relay write disjoint parts of the state (registered; cities,
\* pending and saveLog; chats), so each group of routes is also given as a
\* specification of its own, which is what the properties below are checked
\* under.  Login requests carry both credentials.
DoRegister == \E k \in Clients, n \in UserNameFields, p \in PasswordFields : Register(k, n, p)
DoLogin == \E k \in Clients, n \in UserNames, p \in Passwords : Login(k, n, p)
DoSaveCityFind == \E r \in Slots, k \in Clients, c \in CityFields : SaveCityFind(r, k, c)
DoSaveCitySave == \E r \in Slots : SaveCitySave(r)
DoListCities == \E k \in Clients : ListCities(k)
DoChat == \E m \in MessageFields, up \in Upstream : Chat(m, up)

Next ==
    \/ DoRegister
    \/ DoLogin
    \/ DoSaveCityFind
    \/ DoSaveCitySave
    \/ DoListCities
    \/ DoChat

Spec == Init /\ [][Next]_vars

\* Registration and login.
NextAuth == DoRegister \/ DoLogin
SpecAuth == Init /\ [][NextAuth]_vars

\* Login and the two /cities routes, requests overlapping freely.
NextCities == DoLogin \/ DoSaveCityFind \/ DoSaveCitySave \/ DoListCities
SpecCities == Init /\ [][NextCities]_vars

\* The same, one request completing before the next starts.
Quiescent == \A r \in Slots : ~pending[r].busy
NextSerial ==
    \/ Quiescent /\ DoLogin
    \/ Quiescent /\ DoSaveCityFind
    \/ DoSaveCitySave
    \/ Quiescent /\ DoListCities
SpecSerial == Init /\ [][NextSerial]_vars

\* The chat relay.
NextChat == DoChat
SpecChat == Init /\ [][NextChat]_vars

\* ================================================================== claims

\* The claims' own reading of their preconditions, independent of the handlers.
EmptyOrAbsent(f, empty) == ~f.present \/ f.value = empty
InvalidCredentials(username, password) ==
    \A u \in users : u.username = username => ~BcryptCompare(password, u.password)

\* The step is a POST /login of client k (its inputs are those `last` records).
LoginStep(k) ==
    /\ last'.op = "login" /\ last'.client = k
    /\ Login(k, last'.username, last'.password)

\* The step is a POST /cities of client k that was answered at once.
SaveAnswered(k) ==
    /\ last'.op = "saveCity" /\ last'.client = k /\ pending' = pending
    /\ \E r \in Slots : SaveCityFind(r, k, last'.city)

\* The step is a POST /cities of client k that went on to save, in slot r.
SaveSuspended(k, r) ==
    /\ ~pending[r].busy /\ pending'[r].busy /\ pending'[r].client = k
    /\ SaveCityFind(r, k, Field(pending'[r].name))

\* The step is a GET /cities of client k.
ListStep(k) ==
    /\ last'.op = "listCities" /\ last'.client = k
    /\ ListCities(k)

\* The step is a POST /chat (its inputs are those `last` records).
ChatStep == last'.op = "chat" /\ Chat(last'.message, last'.upstream)

\* C1: when an authenticated user saves the same non-empty city twice, one
\* request completing before the next starts, the first answer is 201 and a
\* record is inserted, the second answer is 400, and the collection then holds
\* exactly one record with that (name, userId).
C1_SaveTwice ==
    \A p \in UserIds \X CityNames :
        /\ Len(saveLog[p]) >= 1 => saveLog[p][1] = 201 /\ Count(p[2], p[1]) = 1
        /\ Len(saveLog[p]) = 2 => saveLog[p][2] = 400

C1_Witness ==
    \E p \in UserIds \X CityNames : Len(saveLog[p]) = 2 /\ Len(cities) >= 2

\* C2: in every reachable state, under any interleaving of concurrent saveCity
\* requests, no two City records have the same (name, userId) pair.
C2_UniquePair ==
    \A i, j \in 1..Len(cities) :
        i # j => ~(cities[i].name = cities[j].name /\ cities[i].userId = cities[j].userId)

\* C3: every record listCities returns to a client has the userId of the user
\* that client is logged in as; a city saved by another user is never returned.
C3_ListOwn ==
    [][\A k \in Clients :
          ListStep(k) /\ last'.status = 200 =>
              /\ session[k] # NoUser
              /\ \A i \in 1..Len(last'.body) : last'.body[i].userId = session[k]
              /\ \A i \in 1..Len(cities) :
                    cities[i].userId # session[k] =>
                        \A j \in 1..Len(last'.body) : last'.body[j] # cities[i]]_vars

C3_Witness ==
    /\ last.op = "listCities" /\ last.status = 200 /\ Len(last.body) >= 1
    /\ \E i \in 1..Len(cities) : cities[i].userId # last.userId

\* C4: registering with valid credentials and then logging in with the same
\* credentials succeeds, and the stored password never equals the plaintext.
C4_RegisterThenLogin ==
    /\ (last.op = "login" /\ <<last.username, last.password>> \in registered)
          => last.status = 200
    /\ \A u \in users, c \in registered : u.username = c[1] => u.password # c[2]

C6_Unauthenticated ==
    [][\A k \in Clients :
          session[k] = NoUser =>
              /\ \A r \in Slots : ~SaveSuspended(k, r)
              /\ SaveAnswered(k) =>
                    last'.status = 401 /\ cities' = cities /\ pending' = pending
              /\ ListStep(k) => last'.status = 401 /\ cities' = cities]_vars

C6_Witness ==
    /\ last.op = "saveCity" /\ last.status = 401
    /\ EmptyOrAbsent(last.city, "")
    /\ session[last.client] = NoUser

\* C7: a successful login establishes a session for the authenticated user,
\* which lasts until the client's next successful login; a saveCity or
\* listCities request of a client with a session is not answered 401 and acts
\* on the records of the session's user.
C7_Session ==
    [][\A k \in Clients :
          /\ (LoginStep(k) /\ last'.status = 200) =>
                \E u \in users : u.username = last'.username /\ session'[k] = u.id
          /\ ~LoginStep(k) => session'[k] = session[k]
          /\ session[k] # NoUser =>
                /\ \A r \in Slots :
                      SaveSuspended(k, r) => pending'[r].userId = session[k]
                /\ SaveAnswered(k) =>
                      last'.status = 400 /\ last'.userId = session[k]
                /\ ListStep(k) =>
                      last'.status = 200 /\ last'.body = CityFind(session[k])]_vars

C7_Witness ==
    /\ last.op = "saveCity" /\ last.status = 201
    /\ session[last.client] = last.userId

\* C8: chat with an empty or absent message answers 200 with the fixed text
\* "Please type something.", makes no upstream call and leaves the Chat
\* collection unchanged.
C8_EmptyMessage ==
    [][(ChatStep /\ EmptyOrAbsent(last'.message, <<>>)) =>
          /\ last'.status = 200
          /\ last'.response = Literal("Please type something.")
          /\ last'.upstream = NotCalled
          /\ chats' = chats]_vars

C8_Witness ==
    /\ last.op = "chat" /\ last.message = Field(<<>>)
    /\ Len(chats) >= 1

\* C9: for a non-empty message and a well-formed upstream completion, chat
\* returns the trimmed reply and appends exactly one Chat record with that
\* userMessage and botMessage, also when the reply trims to the empty string.
C9_ReplyStored ==
    [][(ChatStep /\ ~EmptyOrAbsent(last'.message, <<>>) /\ WellFormed(last'.upstream)) =>
          /\ last'.response = Reply(Trim(last'.upstream.content))
          /\ chats' = Append(chats, [userMessage |-> last'.message.value,
                                     botMessage |-> Trim(last'.upstream.content)])]_vars

\* C10: when the upstream call of a non-empty chat request is rejected, or
\* gives no response or one without choices, chat answers 200 with the apology
\* and leaves the Chat collection unchanged; no chat request is answered with
\* another status than 200.
C10_UpstreamFailure ==
    [][ChatStep =>
          /\ last'.status = 200
          /\ (~EmptyOrAbsent(last'.message, <<>>)
                /\ last'.upstream.kind \in {"rejected", "null", "noChoices"}) =>
                last'.response = Apology /\ chats' = chats]_vars

C10_Witness ==
    /\ last.op = "chat" /\ last.upstream.kind \in {"rejected", "null", "noChoices"}
    /\ last.response = Apology
    /\ Len(chats) >= 1

====
